---- MODULE Spec2Model ----
(***************************************************************************)
(* Model of the wcferry Rust client (clients/rust/wcferry/src/wechat.rs):  *)
(* the WeChat session (primary nng socket + listening flag), the command   *)
(* dispatcher send_cmd, the public operations narrowing its reply, the     *)
(* subscription operations enable_listen / disable_listen / recv_msg and   *)
(* stop.  The remote service and the two nng Pair1 links are modelled as   *)
(* queues of wire messages with a peer that serves requests in order.      *)
(***************************************************************************)
EXTENDS Integers, Sequences, FiniteSets, TLC

\* ---------------------------------------------------------------- bounds
NumThreads == 2
MaxCalls == 2
MaxPush == 2

\* ------------------------------------------------------- program constants
TimeoutMs == 5000

Threads == 1..NumThreads

\* ------------------------------------------------------------ wire data
\* Option<wcf::response::Msg>: the reply payload variants the code matches on.
None == [tag |-> "None", val |-> 0]
Status(s) == [tag |-> "Status", val |-> s]
Variant(v) == [tag |-> v, val |-> 1]
Wxmsg(n) == [tag |-> "Wxmsg", val |-> n]

OtherTags == {"Str", "Ui", "Contacts", "Dbs", "Tables", "Rows", "Types"}

ResponseMsgs ==
    {None} \cup {Status(s) : s \in {-1, 0, 1}} \cup {Variant(v) : v \in OtherTags}
           \cup {Wxmsg(1)}

\* Bytes on the wire: a well-formed wcf::Response carrying msg, or bytes that
\* are not a Response at all.
Encoded(m) == [valid |-> TRUE, msg |-> m]
Garbage == [valid |-> FALSE, msg |-> None]

\* wcf::Response::decode(msg.as_slice())
Decode(bytes) ==
    IF bytes.valid THEN [ok |-> TRUE, msg |-> bytes.msg]
    ELSE [ok |-> FALSE, msg |-> None]

\* ------------------------------------------------------------- results
OkBool(b) == [kind |-> "Ok", ty |-> "bool", b |-> b, n |-> 0]
OkNone == [kind |-> "Ok", ty |-> "none", b |-> FALSE, n |-> 0]
OkSome(v) == [kind |-> "Ok", ty |-> "some", b |-> FALSE, n |-> v]
OkVec(v) == [kind |-> "Ok", ty |-> "vec", b |-> FALSE, n |-> v]
OkSocket(e) == [kind |-> "Ok", ty |-> "socket", b |-> FALSE, n |-> e]
OkUnit == [kind |-> "Ok", ty |-> "unit", b |-> FALSE, n |-> 0]
Err(m) == [kind |-> "Err", ty |-> m, b |-> FALSE, n |-> 0]
Panic == [kind |-> "Panic", ty |-> "unwrap", b |-> FALSE, n |-> 0]
NoResult == [kind |-> "None", ty |-> "none", b |-> FALSE, n |-> 0]

\* Result of send_cmd: Err("通信失败") for every failing leg, else Ok(response.msg).
SendCmdErr == [ok |-> FALSE, msg |-> None]
SendCmdOk(m) == [ok |-> TRUE, msg |-> m]

\* ------------------------------------------------------------ operations
\* Operations that answer Ok(1 == status) on a Status reply.
StatusOps ==
    {"is_login", "send_file", "send_xml", "send_emotion", "accept_new_friend",
     "add_chatroom_members", "del_chatroom_members", "decrypt_image",
     "recv_transfer"}
\* Operations that answer Ok(true) on any non-empty reply.
AnyReplyOps == {"send_text", "send_image"}
\* Operations that answer Option<T>.
OptionOps == {"get_self_wx_id", "get_user_info", "get_contacts"}
\* Operations that answer a Vec or a HashMap.
CollectionOps == {"get_db_names", "get_db_tables", "exec_db_query", "get_msg_types"}

NarrowOps == StatusOps \cup AnyReplyOps \cup OptionOps \cup CollectionOps \cup {"refresh_pyq"}
ListenOps == {"enable_listen", "disable_listen"}
DispatchOps == NarrowOps \cup ListenOps
Ops == DispatchOps \cup {"stop"}

\* The function selector each operation puts in its Request.
Func(o) ==
    CASE o = "is_login" -> "FuncIsLogin"
      [] o = "get_self_wx_id" -> "FuncGetSelfWxid"
      [] o = "get_user_info" -> "FuncGetUserInfo"
      [] o = "get_contacts" -> "FuncGetContacts"
      [] o = "get_db_names" -> "FuncGetDbNames"
      [] o = "get_db_tables" -> "FuncGetDbTables"
      [] o = "exec_db_query" -> "FuncExecDbQuery"
      [] o = "send_text" -> "FuncSendTxt"
      [] o = "send_image" -> "FuncSendImg"
      [] o = "send_file" -> "FuncSendFile"
      [] o = "send_xml" -> "FuncSendXml"
      [] o = "send_emotion" -> "FuncSendEmotion"
      [] o = "enable_listen" -> "FuncEnableRecvTxt"
      [] o = "disable_listen" -> "FuncDisableRecvTxt"
      [] o = "stop" -> "FuncDisableRecvTxt"
      [] o = "get_msg_types" -> "FuncGetMsgTypes"
      [] o = "accept_new_friend" -> "FuncAcceptFriend"
      [] o = "add_chatroom_members" -> "FuncAddRoomMembers"
      [] o = "del_chatroom_members" -> "FuncDelRoomMembers"
      [] o = "decrypt_image" -> "FuncDecryptImage"
      [] o = "recv_transfer" -> "FuncRecvTransfer"
      [] o = "refresh_pyq" -> "FuncRefreshPyq"

\* The reply variant each narrowing operation matches on ("Any": none, the
\* match is commented out in send_text and send_image).
Expected(o) ==
    CASE o \in StatusOps \cup {"refresh_pyq"} -> "Status"
      [] o \in AnyReplyOps -> "Any"
      [] o = "get_self_wx_id" -> "Str"
      [] o = "get_user_info" -> "Ui"
      [] o = "get_contacts" -> "Contacts"
      [] o = "get_db_names" -> "Dbs"
      [] o = "get_db_tables" -> "Tables"
      [] o = "exec_db_query" -> "Rows"
      [] o = "get_msg_types" -> "Types"

\* The value an operation returns for `response.is_none()` and in the `_` arm.
Default(o) ==
    CASE o \in StatusOps \cup AnyReplyOps \cup {"refresh_pyq"} -> OkBool(FALSE)
      [] o \in OptionOps -> OkNone
      [] o \in CollectionOps -> OkVec(0)

\* Faulty variant: a status operation takes every status but 0 for success.
MatchedNonZero(o, m) ==
    CASE o \in StatusOps -> OkBool(m.val # 0)
      [] o = "refresh_pyq" -> OkBool(m.val # -1)
      [] o \in OptionOps -> OkSome(m.val)
      [] o \in CollectionOps -> OkVec(m.val)

\* The value an operation returns when the reply is the variant it matches.
Matched(o, m) ==
    CASE o \in StatusOps -> OkBool(1 = m.val)
      [] o = "refresh_pyq" -> OkBool(m.val # -1)
      [] o \in OptionOps -> OkSome(m.val)
      [] o \in CollectionOps -> OkVec(m.val)

\* send_text / send_image: `if response.is_none() { Ok(false) } return Ok(true)`.
AnyReply(o, m) == IF m = None THEN OkBool(FALSE) ELSE OkBool(TRUE)

\* Faulty variant: the failure of send_cmd is absorbed into the default value.
OpFailedSwallowed(o) == Default(o)

\* The error a narrowing operation returns when send_cmd returned Err.
OpFailed(o) == Err(o)

\* The tail of every narrowing operation, after send_cmd returned r.
Narrow(o, r) ==
    IF ~r.ok THEN OpFailed(o)
    ELSE IF o \in AnyReplyOps THEN AnyReply(o, r.msg)
    ELSE IF r.msg = None THEN Default(o)
    ELSE IF r.msg.tag = Expected(o) THEN Matched(o, r.msg)
    ELSE Default(o)

\* Faulty variant: connect logs a failure to set an option and goes on to
\* dial; the option that failed is left unset.
connect_lenient(fail) ==
    [ok |-> fail \notin {"new", "dial"},
     sock |-> [open |-> fail \notin {"new", "dial"},
               recvTimeout |-> IF fail \in {"none", "send_timeout"} THEN TimeoutMs ELSE 0,
               sendTimeout |-> IF fail \in {"none", "recv_timeout"} THEN TimeoutMs ELSE 0]]

\* Faulty variant: connect leaves the socket without timeouts.
connect_untimed(fail) ==
    [ok |-> fail = "none",
     sock |-> [open |-> fail = "none", recvTimeout |-> 0, sendTimeout |-> 0]]

\* connect(url): Socket::new, set RecvTimeout, set SendTimeout, dial; `fail`
\* names the step that fails ("none": all succeed).
ConnectSteps == {"new", "recv_timeout", "send_timeout", "dial"}
connect(fail) ==
    IF fail = "none"
    THEN [ok |-> TRUE,
          sock |-> [open |-> TRUE, recvTimeout |-> TimeoutMs, sendTimeout |-> TimeoutMs]]
    ELSE [ok |-> FALSE,
          sock |-> [open |-> FALSE, recvTimeout |-> 0, sendTimeout |-> 0]]

\* ------------------------------------------------------------------ state
VARIABLES
    listening,      \* WeChat.listening
    socket,         \* WeChat.socket, the primary endpoint
    subs,           \* the sockets enable_listen dialed and handed to the caller
    remotePushing,  \* the remote service was last told to push events
    reqQ,           \* requests in flight on the primary link, client -> peer
    repQ,           \* replies in flight on the primary link, peer -> client
    subQ,           \* pushed messages in flight on the subscription link
    pc,             \* per caller thread: "idle", "send", "recv", "poll", "ret"
    call,           \* per caller thread: the call in progress (bookkeeping)
    res,            \* per caller thread: what the last call returned
    ncalls,         \* calls started so far
    npush,          \* messages pushed so far
    hist            \* history: events pushed, events recv_msg returned, messages
                    \* recv_msg took, whether a primary receive has failed

sessionVars == <<listening, socket, subs>>
peerVars == <<remotePushing, reqQ, repQ>>
pushVars == <<subQ, npush, hist>>
callVars == <<pc, call, res, ncalls>>
vars == <<listening, socket, subs, remotePushing, reqQ, repQ, subQ,
          pc, call, res, ncalls, npush, hist>>

\* What a request carries besides the selector is irrelevant to the transport;
\* id identifies the call that sent it (it is not on the wire).
Request(id, o) == [id |-> id, func |-> Func(o)]

\* Every message a link can carry.
Wire == {Encoded(m) : m \in ResponseMsgs} \cup {Garbage}

\* The operations the callers of the explored runs invoke, and the answers the
\* peer of the explored runs gives: an empty payload, the payload variants these
\* operations match on or not, bytes that do not decode.
CallerOps == {"is_login", "send_text", "get_self_wx_id",
              "enable_listen", "disable_listen", "stop"}
PeerWire == {Encoded(None), Encoded(Status(0)), Encoded(Status(1)),
             Encoded(Variant("Str")), Garbage}
PushWire(n) == {Encoded(Wxmsg(n)), Encoded(Status(0)), Encoded(None), Garbage}

\* The outcome of one socket.recv(): a failure, or the bytes received.
RecvFailed == [ok |-> FALSE, bytes |-> Garbage]
Received(bytes) == [ok |-> TRUE, bytes |-> bytes]

NoCall ==
    [op |-> "none", entry |-> FALSE, nsend |-> 0, nrecv |-> 0,
     logged |-> "none", unsub |-> NoResult, reqid |-> 0, repid |-> 0,
     ep |-> 0, recv |-> RecvFailed, overlap |-> FALSE]

NewCall(o) == [NoCall EXCEPT !.op = o, !.entry = listening]

NoHist == [pushed |-> <<>>, events |-> <<>>, taken |-> 0, timedOut |-> FALSE]

\* A blocking receive on socket s gives up: its receive timeout fires, or the
\* socket is closed.
RecvGivesUp(s) == s.recvTimeout > 0 \/ ~s.open

\* WeChat::new: the primary socket is connected, listening is false.
Init ==
    /\ listening = FALSE
    /\ socket = connect("none").sock
    /\ subs = <<>>
    /\ remotePushing = FALSE
    /\ reqQ = <<>>
    /\ repQ = <<>>
    /\ subQ = <<>>
    /\ pc = [t \in Threads |-> "idle"]
    /\ call = [t \in Threads |-> NoCall]
    /\ res = [t \in Threads |-> NoResult]
    /\ ncalls = 0
    /\ npush = 0
    /\ hist = NoHist

\* Calls on one session are serialized by the callers: a thread starts a call
\* only when no other thread is in one.
MayCall(t) ==
    /\ \A u \in Threads : pc[u] = "idle"
    /\ ncalls < MaxCalls

Begin(t, o) ==
    /\ MayCall(t)
    /\ call' = [call EXCEPT ![t] = NewCall(o)]
    /\ ncalls' = ncalls + 1

Returns(t, r) ==
    /\ pc' = [pc EXCEPT ![t] = "ret"]
    /\ res' = [res EXCEPT ![t] = r]

\* ------------------------------------------------------------------- stop
\* Faulty variant: stop returns the error of disable_listen at once, the
\* socket still open.
stop_tail_propagating(t) ==
    IF call'[t].unsub.kind = "Err"
    THEN /\ UNCHANGED socket
         /\ Returns(t, Err("stop"))
    ELSE /\ socket' = [socket EXCEPT !.open = FALSE]
         /\ \E cmdOk \in BOOLEAN :
               Returns(t, IF cmdOk THEN OkUnit ELSE Err("stop"))

\* stop, after `let _ = disable_listen(wechat)`: close the primary socket, run
\* `wcf stop`, return Err when the command could not be run.
stop_tail(t) ==
    /\ socket' = [socket EXCEPT !.open = FALSE]
    /\ \E cmdOk \in BOOLEAN :
          Returns(t, IF cmdOk THEN OkUnit ELSE Err("stop"))

\* ---------------------------------------------------------- enable_listen
\* Faulty variant: enable_listen dials and sets wechat.listening before it
\* looks at what send_cmd returned.
enable_listen_tail_eager(t, r) ==
    /\ subs' = Append(subs, connect("none").sock)
    /\ listening' = TRUE
    /\ Returns(t, IF ~r.ok \/ r.msg = None
                  THEN Err("enable_listen") ELSE OkSocket(Len(subs) + 1))

\* enable_listen, after send_cmd returned r.
enable_listen_tail(t, r) ==
    IF ~r.ok \/ r.msg = None
    THEN /\ Returns(t, Err("enable_listen"))
         /\ UNCHANGED <<listening, subs>>
    ELSE \E fail \in ConnectSteps \cup {"none"} :
            LET c == connect(fail) IN
            IF c.ok
            THEN /\ subs' = Append(subs, c.sock)
                 /\ listening' = TRUE
                 /\ Returns(t, OkSocket(Len(subs) + 1))
            ELSE /\ Returns(t, Panic)
                 /\ UNCHANGED <<listening, subs>>

\* --------------------------------------------------------- disable_listen
\* disable_listen, after send_cmd returned r: the value it returns and the
\* value it leaves in wechat.listening.
disable_listen_result(r) ==
    IF ~r.ok \/ r.msg = None THEN Err("disable_listen") ELSE OkBool(TRUE)

\* Faulty variant: disable_listen clears wechat.listening whatever send_cmd
\* returned.
disable_listen_flag_cleared(r) == FALSE

disable_listen_flag(r) ==
    IF ~r.ok \/ r.msg = None THEN listening ELSE FALSE

\* ---------------------------------------------------------------- send_cmd
\* The continuation of the operation of thread t once its send_cmd returned r.
AfterSendCmd(t, r, c) ==
    /\ call' = [call EXCEPT ![t] =
                  IF c.op = "stop"
                  THEN [c EXCEPT !.unsub = disable_listen_result(r)]
                  ELSE c]
    /\ CASE c.op \in NarrowOps ->
              /\ Returns(t, Narrow(c.op, r))
              /\ UNCHANGED sessionVars
         [] c.op = "enable_listen" ->
              /\ enable_listen_tail(t, r)
              /\ UNCHANGED socket
         [] c.op = "disable_listen" ->
              /\ listening' = disable_listen_flag(r)
              /\ Returns(t, disable_listen_result(r))
              /\ UNCHANGED <<socket, subs>>
         [] c.op = "stop" ->
              /\ listening' = disable_listen_flag(r)
              /\ stop_tail(t)
              /\ UNCHANGED subs

\* req.encode(&mut buf) fails: error logged, Err returned, nothing sent.
EncodeFail(t) ==
    /\ pc[t] = "send"
    /\ AfterSendCmd(t, SendCmdErr, [call[t] EXCEPT !.logged = "encode"])
    /\ UNCHANGED <<peerVars, pushVars, ncalls>>

\* Faulty variant: a failed send returns an error of its own.
SendFailDistinct(t) ==
    /\ pc[t] = "send"
    /\ call' = [call EXCEPT ![t] = [@ EXCEPT !.logged = "send", !.nsend = @ + 1]]
    /\ Returns(t, Err("SendFailed"))
    /\ UNCHANGED <<sessionVars, peerVars, pushVars, ncalls>>

\* wechat.socket.send(msg) fails (timeout, closed socket): Err returned.
SendFail(t) ==
    /\ pc[t] = "send"
    /\ AfterSendCmd(t, SendCmdErr,
                    [call[t] EXCEPT !.logged = "send", !.nsend = @ + 1])
    /\ UNCHANGED <<peerVars, pushVars, ncalls>>

\* wechat.socket.send(msg) succeeds: the request is on its way to the peer.
SendOk(t) ==
    /\ pc[t] = "send"
    /\ socket.open
    /\ reqQ' = Append(reqQ, Request(ncalls, call[t].op))
    /\ call' = [call EXCEPT ![t] = [@ EXCEPT !.nsend = @ + 1, !.reqid = ncalls]]
    /\ pc' = [pc EXCEPT ![t] = "recv"]
    /\ UNCHANGED <<sessionVars, remotePushing, repQ, pushVars, res, ncalls>>

\* Faulty variant: send_cmd sends the request again when the receive failed.
AfterRecvFailRetry(t) ==
    /\ call' = [call EXCEPT ![t] = [@ EXCEPT !.nrecv = @ + 1]]
    /\ pc' = [pc EXCEPT ![t] = "send"]
    /\ UNCHANGED <<sessionVars, res>>

\* What send_cmd does when wechat.socket.recv() fails.
AfterRecvFail(t) ==
    AfterSendCmd(t, SendCmdErr,
                 [call[t] EXCEPT !.logged = "recv", !.nrecv = @ + 1])

\* wechat.socket.recv() fails (receive timeout, closed socket).
RecvFail(t) ==
    /\ pc[t] = "recv"
    /\ RecvGivesUp(socket)
    /\ AfterRecvFail(t)
    /\ hist' = [hist EXCEPT !.timedOut = TRUE]
    /\ UNCHANGED <<peerVars, subQ, npush, ncalls>>

\* Faulty variant: the receive leaves the reply on the link.
RecvOkPeek(t) ==
    /\ pc[t] = "recv"
    /\ socket.open
    /\ repQ # <<>>
    /\ LET m == Head(repQ)
           d == Decode(m.bytes)
           c == [call[t] EXCEPT !.nrecv = @ + 1, !.repid = m.id,
                                !.recv = Received(m.bytes),
                                !.logged = IF d.ok THEN "none" ELSE "decode"]
       IN AfterSendCmd(t, IF d.ok THEN SendCmdOk(d.msg) ELSE SendCmdErr, c)
    /\ UNCHANGED <<remotePushing, reqQ, repQ, pushVars, ncalls>>

\* wechat.socket.recv() returns the next message on the link; it is decoded
\* and the operation continues with Ok(response.msg) or Err.
RecvOk(t) ==
    /\ pc[t] = "recv"
    /\ socket.open
    /\ repQ # <<>>
    /\ LET m == Head(repQ)
           d == Decode(m.bytes)
           c == [call[t] EXCEPT !.nrecv = @ + 1, !.repid = m.id,
                                !.recv = Received(m.bytes),
                                !.logged = IF d.ok THEN "none" ELSE "decode"]
       IN AfterSendCmd(t, IF d.ok THEN SendCmdOk(d.msg) ELSE SendCmdErr, c)
    /\ repQ' = Tail(repQ)
    /\ UNCHANGED <<remotePushing, reqQ, pushVars, ncalls>>

\* ------------------------------------------------------- public operations
\* Any operation whose first step is send_cmd (for stop: through disable_listen
\* on a listening session).
Dispatch(t, o) ==
    /\ o \in NarrowOps
       \/ (o = "enable_listen" /\ ~listening)
       \/ (o \in {"disable_listen", "stop"} /\ listening)
    /\ Begin(t, o)
    /\ pc' = [pc EXCEPT ![t] = "send"]
    /\ res' = [res EXCEPT ![t] = NoResult]
    /\ UNCHANGED <<sessionVars, peerVars, pushVars>>

\* Faulty variant: enable_listen without the check of wechat.listening.
enable_listen_again(t) ==
    /\ listening
    /\ Begin(t, "enable_listen")
    /\ pc' = [pc EXCEPT ![t] = "send"]
    /\ res' = [res EXCEPT ![t] = NoResult]
    /\ UNCHANGED <<sessionVars, peerVars, pushVars>>

\* enable_listen on a listening session: `return Err("消息接收服务已开启")`.
enable_listen_already(t) ==
    /\ listening
    /\ Begin(t, "enable_listen")
    /\ Returns(t, Err("AlreadySubscribed"))
    /\ UNCHANGED <<sessionVars, peerVars, pushVars>>

\* Faulty variant: disable_listen without the check of wechat.listening.
disable_listen_always(t) ==
    /\ ~listening
    /\ Begin(t, "disable_listen")
    /\ pc' = [pc EXCEPT ![t] = "send"]
    /\ res' = [res EXCEPT ![t] = NoResult]
    /\ UNCHANGED <<sessionVars, peerVars, pushVars>>

\* disable_listen on a session that is not listening: `return Ok(true)`.
disable_listen_noop(t) ==
    /\ ~listening
    /\ Begin(t, "disable_listen")
    /\ Returns(t, OkBool(TRUE))
    /\ UNCHANGED <<sessionVars, peerVars, pushVars>>

\* stop on a session that is not listening: disable_listen returns Ok(true)
\* at once, then the socket is closed and the service stopped.
stop_not_listening(t) ==
    /\ ~listening
    /\ MayCall(t)
    /\ call' = [call EXCEPT ![t] = [NewCall("stop") EXCEPT !.unsub = OkBool(TRUE)]]
    /\ ncalls' = ncalls + 1
    /\ stop_tail(t)
    /\ UNCHANGED <<listening, subs, peerVars, pushVars>>

\* The caller has looked at the result; the thread is free for the next call.
Finish(t) ==
    /\ pc[t] = "ret"
    /\ pc' = [pc EXCEPT ![t] = "idle"]
    /\ call' = [call EXCEPT ![t] = NoCall]
    /\ res' = [res EXCEPT ![t] = NoResult]
    /\ UNCHANGED <<sessionVars, peerVars, pushVars, ncalls>>

\* ---------------------------------------------------------------- the peer
Effect(req) ==
    CASE req.func = "FuncEnableRecvTxt" -> TRUE
      [] req.func = "FuncDisableRecvTxt" -> FALSE
      [] OTHER -> remotePushing

\* The remote service handles the oldest request and answers it with one of W.
PeerAnswers(W) ==
    /\ reqQ # <<>>
    /\ remotePushing' = Effect(Head(reqQ))
    /\ reqQ' = Tail(reqQ)
    /\ \E bytes \in W :
          repQ' = Append(repQ, [id |-> Head(reqQ).id, bytes |-> bytes])
    /\ UNCHANGED <<sessionVars, pushVars, callVars>>

PeerReply == PeerAnswers(PeerWire)
PeerReplyAny == PeerAnswers(Wire)

\* The remote service handles the oldest request; its reply never arrives.
PeerNoReply ==
    /\ reqQ # <<>>
    /\ remotePushing' = Effect(Head(reqQ))
    /\ reqQ' = Tail(reqQ)
    /\ UNCHANGED <<repQ, sessionVars, pushVars, callVars>>

\* The request never reaches the remote service.
RequestLost ==
    /\ reqQ # <<>>
    /\ reqQ' = Tail(reqQ)
    /\ UNCHANGED <<remotePushing, repQ, sessionVars, pushVars, callVars>>

\* The remote service, told to push, sends a message on the subscription link.
PeerPush ==
    /\ remotePushing
    /\ npush < MaxPush
    /\ npush' = npush + 1
    /\ \E bytes \in PushWire(npush + 1) :
          /\ subQ' = Append(subQ, bytes)
          /\ hist' = [hist EXCEPT !.pushed =
                         IF bytes = Encoded(Wxmsg(npush + 1))
                         THEN Append(@, npush + 1) ELSE @]
    /\ UNCHANGED <<sessionVars, peerVars, callVars>>

\* ---------------------------------------------------------------- recv_msg
\* Faulty variant: recv_msg reports a failed receive as an error.
recv_msg_strict(r) ==
    IF ~r.ok THEN Err("recv_msg")
    ELSE LET d == Decode(r.bytes) IN
         IF ~d.ok THEN Err("recv_msg")
         ELSE IF d.msg.tag = "Wxmsg" THEN OkSome(d.msg.val)
         ELSE OkNone

\* Faulty variant: recv_msg reports bytes that do not decode as absent.
recv_msg_lenient(r) ==
    IF ~r.ok THEN OkNone
    ELSE LET d == Decode(r.bytes) IN
         IF ~d.ok THEN OkNone
         ELSE IF d.msg.tag = "Wxmsg" THEN OkSome(d.msg.val)
         ELSE OkNone

\* Faulty variant: recv_msg surfaces every non-empty payload as an event.
recv_msg_any(r) ==
    IF ~r.ok THEN OkNone
    ELSE LET d == Decode(r.bytes) IN
         IF ~d.ok THEN Err("recv_msg")
         ELSE IF d.msg # None THEN OkSome(d.msg.val)
         ELSE OkNone

\* recv_msg(client), given the outcome of client.recv().
recv_msg(r) ==
    IF ~r.ok THEN OkNone
    ELSE LET d == Decode(r.bytes) IN
         IF ~d.ok THEN Err("recv_msg")
         ELSE IF d.msg.tag = "Wxmsg" THEN OkSome(d.msg.val)
         ELSE OkNone

\* Thread t calls recv_msg on endpoint e and blocks in client.recv().
PollBegin(t, e) ==
    /\ e \in 1..Len(subs)
    /\ \A u \in Threads : pc[u] = "idle"
    /\ pc' = [pc EXCEPT ![t] = "poll"]
    /\ call' = [call EXCEPT ![t] = [NoCall EXCEPT !.op = "recv_msg", !.ep = e]]
    /\ res' = [res EXCEPT ![t] = NoResult]
    /\ UNCHANGED <<sessionVars, peerVars, pushVars, ncalls>>

\* The recv_msg call of thread t returns, its client.recv() having given r.
Poll(t, r) ==
    /\ pc[t] = "poll"
    /\ call' = [call EXCEPT ![t] = [@ EXCEPT !.recv = r]]
    /\ Returns(t, recv_msg(r))

\* recv_msg when client.recv() fails: timeout or closed socket.
PollFail(t) ==
    /\ pc[t] = "poll"
    /\ RecvGivesUp(subs[call[t].ep])
    /\ Poll(t, RecvFailed)
    /\ UNCHANGED <<sessionVars, peerVars, pushVars, ncalls>>

\* Faulty variant: recv_msg receives on the primary socket.
PollOkPrimary(t) ==
    /\ pc[t] = "poll"
    /\ socket.open
    /\ repQ # <<>>
    /\ Poll(t, Received(Head(repQ).bytes))
    /\ repQ' = Tail(repQ)
    /\ hist' = [hist EXCEPT !.taken = @ + 1]
    /\ UNCHANGED <<sessionVars, remotePushing, reqQ, subQ, npush, ncalls>>

\* Faulty variant: the receive leaves the message on the link.
PollOkPeek(t) ==
    /\ pc[t] = "poll"
    /\ subs[call[t].ep].open
    /\ subQ # <<>>
    /\ Poll(t, Received(Head(subQ)))
    /\ hist' = [hist EXCEPT !.taken = @ + 1,
                            !.events = IF recv_msg(Received(Head(subQ))).ty = "some"
                                       THEN Append(@, recv_msg(Received(Head(subQ))).n)
                                       ELSE @]
    /\ UNCHANGED <<sessionVars, peerVars, subQ, npush, ncalls>>

\* recv_msg when client.recv() returns the next pushed message.
PollOk(t) ==
    /\ pc[t] = "poll"
    /\ subs[call[t].ep].open
    /\ subQ # <<>>
    /\ Poll(t, Received(Head(subQ)))
    /\ subQ' = Tail(subQ)
    /\ hist' = [hist EXCEPT !.taken = @ + 1,
                            !.events = IF recv_msg(Received(Head(subQ))).ty = "some"
                                       THEN Append(@, recv_msg(Received(Head(subQ))).n)
                                       ELSE @]
    /\ UNCHANGED <<sessionVars, peerVars, npush, ncalls>>

\* The caller, who owns the socket enable_listen returned, closes it.
CloseEndpoint(e) ==
    /\ e \in 1..Len(subs)
    /\ subs[e].open
    /\ subs' = [subs EXCEPT ![e].open = FALSE]
    /\ UNCHANGED <<listening, socket, peerVars, pushVars, callVars>>

\* ------------------------------------------------------------ specification
Next ==
    \/ \E t \in Threads, o \in CallerOps : Dispatch(t, o)
    \/ \E t \in Threads : enable_listen_already(t)
    \/ \E t \in Threads : disable_listen_noop(t)
    \/ \E t \in Threads : stop_not_listening(t)
    \/ \E t \in Threads : EncodeFail(t)
    \/ \E t \in Threads : SendFail(t)
    \/ \E t \in Threads : SendOk(t)
    \/ \E t \in Threads : RecvFail(t)
    \/ \E t \in Threads : RecvOk(t)
    \/ \E t \in Threads : Finish(t)
    \/ PeerReply
    \/ PeerNoReply
    \/ RequestLost
    \/ PeerPush
    \/ \E t \in Threads, e \in 1..MaxCalls : PollBegin(t, e)
    \/ \E t \in Threads : PollFail(t)
    \/ \E t \in Threads : PollOk(t)
    \/ \E e \in 1..MaxCalls : CloseEndpoint(e)

Spec == Init /\ [][Next]_vars

\* One call of every operation, from the state in which it sends its request
\* (enable_listen on a fresh session; disable_listen and stop on a session a
\* successful enable_listen left listening), against a peer that may answer with
\* any message; and one recv_msg blocked on the socket of a listening session.
InitOneCall ==
    /\ call \in {[t \in Threads |->
                    IF t = 1
                    THEN [NoCall EXCEPT !.op = o,
                                        !.entry = (o \in {"disable_listen", "stop"}),
                                        !.ep = IF o = "recv_msg" THEN 1 ELSE 0]
                    ELSE NoCall] : o \in Ops \cup {"recv_msg"}}
    /\ listening = (call[1].op \in {"disable_listen", "stop", "recv_msg"})
    /\ remotePushing = listening
    /\ subs = IF listening THEN <<connect("none").sock>> ELSE <<>>
    /\ socket = connect("none").sock
    /\ reqQ = <<>>
    /\ repQ = <<>>
    /\ subQ = <<>>
    /\ pc = [t \in Threads |->
                IF t # 1 THEN "idle"
                ELSE IF call[1].op = "recv_msg" THEN "poll" ELSE "send"]
    /\ res = [t \in Threads |-> NoResult]
    /\ ncalls = 1
    /\ npush = 0
    /\ hist = NoHist

NextOneCall ==
    \/ \E t \in Threads : EncodeFail(t)
    \/ \E t \in Threads : SendFail(t)
    \/ \E t \in Threads : SendOk(t)
    \/ \E t \in Threads : RecvFail(t)
    \/ \E t \in Threads : RecvOk(t)
    \/ \E t \in Threads : Finish(t)
    \/ \E t \in Threads : PollFail(t)
    \/ \E t \in Threads : PollOk(t)
    \/ PeerReplyAny
    \/ PeerNoReply
    \/ RequestLost
    \/ PeerPush

SpecOneCall == InitOneCall /\ [][NextOneCall]_vars

\* A blocked send or receive returns: with the value, or when it gives up.
Returning(t) ==
    /\ WF_vars(EncodeFail(t) \/ SendFail(t) \/ SendOk(t))
    /\ WF_vars(RecvFail(t) \/ RecvOk(t))
    /\ WF_vars(PollFail(t) \/ PollOk(t))

SpecOneCallLive == SpecOneCall /\ \A t \in Threads : Returning(t)

\* ------------------------------------------------- unserialized callers
\* is_login takes &WeChat and recv_msg takes &nng::Socket, so several threads
\* may be in them at once; every other operation takes &mut WeChat and excludes
\* any other call on the session while it runs.
Exclusive(o) == o # "is_login"
InCmd(u) == pc[u] \in {"send", "recv"}

ConcOps == {"is_login", "disable_listen"}

MayCallConc(t, o) ==
    /\ pc[t] = "idle"
    /\ ncalls < MaxCalls
    /\ \A u \in Threads \ {t} :
          InCmd(u) => (~Exclusive(o) /\ ~Exclusive(call[u].op))

\* Thread t starts operation o; calls that are in send_cmd at the same time
\* are marked as overlapping.
DispatchConc(t, o) ==
    /\ o = "disable_listen" => listening
    /\ MayCallConc(t, o)
    /\ call' = [u \in Threads |->
                  IF u = t
                  THEN [NewCall(o) EXCEPT
                          !.overlap = \E v \in Threads \ {t} : InCmd(v)]
                  ELSE IF InCmd(u) THEN [call[u] EXCEPT !.overlap = TRUE]
                  ELSE call[u]]
    /\ ncalls' = ncalls + 1
    /\ pc' = [pc EXCEPT ![t] = "send"]
    /\ res' = [res EXCEPT ![t] = NoResult]
    /\ UNCHANGED <<sessionVars, peerVars, pushVars>>

\* Thread t calls recv_msg on endpoint e, whatever the other threads do.
PollBeginConc(t, e) ==
    /\ e \in 1..Len(subs)
    /\ pc[t] = "idle"
    /\ pc' = [pc EXCEPT ![t] = "poll"]
    /\ call' = [call EXCEPT ![t] = [NoCall EXCEPT !.op = "recv_msg", !.ep = e]]
    /\ res' = [res EXCEPT ![t] = NoResult]
    /\ UNCHANGED <<sessionVars, peerVars, pushVars, ncalls>>

\* The peer of the unserialized runs: it answers every request, with a status
\* or with no payload, and pushes events only.
PeerReplyStatus == PeerAnswers({Encoded(Status(1)), Encoded(None)})

PeerPushEvent ==
    /\ remotePushing
    /\ npush < MaxPush
    /\ npush' = npush + 1
    /\ subQ' = Append(subQ, Encoded(Wxmsg(npush + 1)))
    /\ hist' = [hist EXCEPT !.pushed = Append(@, npush + 1)]
    /\ UNCHANGED <<sessionVars, peerVars, callVars>>

\* The session after a successful enable_listen, its socket in the hands of
\* the caller.
InitConc ==
    /\ listening = TRUE
    /\ socket = connect("none").sock
    /\ subs = <<connect("none").sock>>
    /\ remotePushing = TRUE
    /\ reqQ = <<>>
    /\ repQ = <<>>
    /\ subQ = <<>>
    /\ pc = [t \in Threads |-> "idle"]
    /\ call = [t \in Threads |-> NoCall]
    /\ res = [t \in Threads |-> NoResult]
    /\ ncalls = 0
    /\ npush = 0
    /\ hist = NoHist

NextConc ==
    \/ \E t \in Threads, o \in ConcOps : DispatchConc(t, o)
    \/ \E t \in Threads : PollBeginConc(t, 1)
    \/ \E t \in Threads : EncodeFail(t)
    \/ \E t \in Threads : SendFail(t)
    \/ \E t \in Threads : SendOk(t)
    \/ \E t \in Threads : RecvFail(t)
    \/ \E t \in Threads : RecvOk(t)
    \/ \E t \in Threads : PollFail(t)
    \/ \E t \in Threads : PollOk(t)
    \/ \E t \in Threads : Finish(t)
    \/ PeerReplyStatus
    \/ PeerPushEvent

SpecConc == InitConc /\ [][NextConc]_vars

TypeOK ==
    /\ listening \in BOOLEAN
    /\ socket.open \in BOOLEAN
    /\ remotePushing \in BOOLEAN
    /\ \A t \in Threads : pc[t] \in {"idle", "send", "recv", "poll", "ret"}
    /\ ncalls \in 0..MaxCalls
    /\ npush \in 0..MaxPush

\* ------------------------------------------------------------------ claims
Returned(t, o) == pc[t] = "ret" /\ call[t].op = o
OpenSubs == {e \in 1..Len(subs) : subs[e].open}
Quiet == \A t \in Threads : pc[t] \in {"idle", "ret"}

\* C1: enable_listen on a session that is already listening returns the
\* AlreadySubscribed error in one step: nothing is sent on the primary link,
\* no socket is dialed, listening stays true and the sockets handed out before
\* stay as they were (open).
C1_AlreadySubscribed ==
    [][\A t \in Threads :
         (listening /\ pc[t] = "idle" /\ pc'[t] # "idle"
            /\ call'[t].op = "enable_listen")
         => /\ pc'[t] = "ret"
            /\ res'[t] = Err("AlreadySubscribed")
            /\ call'[t].nsend = 0
            /\ reqQ' = reqQ
            /\ subs' = subs
            /\ socket' = socket
            /\ listening']_vars

C1_Witness ==
    \E t \in Threads :
        /\ Returned(t, "enable_listen")
        /\ call[t].entry
        /\ res[t] = Err("AlreadySubscribed")
        /\ listening
        /\ OpenSubs # {}

\* C2 (as claimed): whenever disable_listen, called on a listening session,
\* has returned, listening is false, whatever the remote call did.
C2_DisableAlwaysUnsubscribes ==
    \A t \in Threads :
        (Returned(t, "disable_listen") /\ call[t].entry) => ~listening

\* C3 (as claimed): between operations the listening flag agrees with what
\* the remote service was last told about pushing.
C3_NeverHalfSubscribed ==
    Quiet => (listening = remotePushing)

\* C4: disable_listen on a session that is not listening returns Ok(true) in
\* one step, sends nothing and leaves the session as it was.
C4_DisableNoop ==
    [][\A t \in Threads :
         (~listening /\ pc[t] = "idle" /\ pc'[t] # "idle"
            /\ call'[t].op = "disable_listen")
         => /\ pc'[t] = "ret"
            /\ res'[t] = OkBool(TRUE)
            /\ call'[t].nsend = 0
            /\ reqQ' = reqQ
            /\ UNCHANGED <<listening, socket, subs>>]_vars

C4_Witness ==
    \E t \in Threads :
        /\ Returned(t, "disable_listen")
        /\ ~call[t].entry
        /\ res[t] = OkBool(TRUE)
        /\ call[t].nsend = 0
        /\ ~listening

\* C5 (as claimed): at most one subscription socket is open, and none is
\* open while listening is false.
C5_SecondaryOnlyWhileSubscribed ==
    /\ Cardinality(OpenSubs) <= 1
    /\ ~listening => OpenSubs = {}

\* C6 (as claimed): once stop has returned, listening is false and no
\* subscription socket is open.
C6_StopUnsubscribes ==
    \A t \in Threads :
        Returned(t, "stop") => (~listening /\ OpenSubs = {})

\* C7: a call sends at most once and receives at most once; it receives only
\* after a send that succeeded, and after a failed leg it has returned, its
\* request being on the link at most once.
C7_OneRoundTrip ==
    \A t \in Threads :
        /\ call[t].nsend <= 1
        /\ call[t].nrecv <= 1
        /\ call[t].nrecv <= call[t].nsend
        /\ call[t].logged = "encode" => (call[t].nsend = 0 /\ call[t].nrecv = 0)
        /\ call[t].logged = "send" => call[t].nrecv = 0
        /\ call[t].logged # "none" => pc[t] = "ret"
        /\ Cardinality({i \in 1..Len(reqQ) : reqQ[i].id = call[t].reqid}) <= 1

C7_Witness ==
    \E t \in Threads :
        /\ pc[t] = "ret"
        /\ call[t].logged = "recv"
        /\ call[t].nsend = 1
        /\ call[t].nrecv = 1

Documented(o) == IF o \in AnyReplyOps THEN "Status" ELSE Expected(o)

Mismatch(t) ==
    /\ pc[t] = "ret"
    /\ call[t].op \in NarrowOps
    /\ call[t].logged = "none"
    /\ call[t].recv.ok
    /\ call[t].recv.bytes.msg # None
    /\ call[t].recv.bytes.msg.tag # Documented(call[t].op)

\* C9 (as claimed): an operation that got a successful reply of another
\* variant than the one it expects returns its default.
C9_MismatchGivesDefault ==
    \A t \in Threads : Mismatch(t) => res[t] = Default(call[t].op)

\* C10: a recv_msg whose receive failed (timeout, closed socket) returns
\* Ok(None).
C10_PollSilence ==
    \A t \in Threads :
        (Returned(t, "recv_msg") /\ ~call[t].recv.ok) => res[t] = OkNone

C10_Witness ==
    \E t \in Threads :
        /\ Returned(t, "recv_msg")
        /\ ~call[t].recv.ok
        /\ res[t] = OkNone
        /\ subQ = <<>>

\* C11: a recv_msg that received bytes which do not decode as a Response
\* returns an error, not Ok(None).
C11_MalformedIsError ==
    \A t \in Threads :
        (Returned(t, "recv_msg") /\ call[t].recv.ok /\ ~call[t].recv.bytes.valid)
        => res[t] = Err("recv_msg")

C11_Witness ==
    \E t \in Threads :
        /\ Returned(t, "recv_msg")
        /\ call[t].recv = Received(Garbage)
        /\ res[t].kind = "Err"

\* C12: a recv_msg that decoded a Response returns Some(event) exactly when
\* its payload is a Wxmsg, and Ok(None) for every other variant and for an
\* empty payload; it returns an event in no other case.
C12_OnlyWxmsgSurfaced ==
    \A t \in Threads :
        Returned(t, "recv_msg")
        => LET r == call[t].recv IN
           /\ (r.ok /\ r.bytes.valid /\ r.bytes.msg.tag = "Wxmsg")
                 => res[t] = OkSome(r.bytes.msg.val)
           /\ (r.ok /\ r.bytes.valid /\ r.bytes.msg.tag # "Wxmsg")
                 => res[t] = OkNone
           /\ res[t].ty = "some"
                 => (r.ok /\ r.bytes.valid /\ r.bytes.msg.tag = "Wxmsg")

C12_Witness ==
    \E t \in Threads :
        /\ Returned(t, "recv_msg")
        /\ call[t].recv = Received(Encoded(Status(0)))
        /\ res[t] = OkNone

\* The events (Wxmsg payloads) among the messages of q, in order.
EventsIn(q) ==
    LET F[i \in 0..Len(q)] ==
            IF i = 0 THEN <<>>
            ELSE IF q[i].valid /\ q[i].msg.tag = "Wxmsg"
                 THEN Append(F[i - 1], q[i].msg.val)
                 ELSE F[i - 1]
    IN F[Len(q)]

\* C13: successive recv_msg calls return the pushed events in the order the
\* peer sent them, one message taken per successful receive, none lost,
\* duplicated or reordered: the events returned so far, followed by the events
\* still in flight, are the events pushed; an event just returned is the last
\* of the events returned.
C13_EventsInOrder ==
    /\ hist.events \o EventsIn(subQ) = hist.pushed
    /\ hist.taken + Len(subQ) = npush
    /\ \A t \in Threads :
          (Returned(t, "recv_msg") /\ res[t].ty = "some")
          => /\ hist.events # <<>>
             /\ res[t] = OkSome(hist.events[Len(hist.events)])

\* Two events pushed, both returned in order, and the next poll meets silence.
C13_Witness ==
    /\ hist.pushed = <<1, 2>>
    /\ hist.events = <<1, 2>>
    /\ subQ = <<>>
    /\ \E t \in Threads :
          /\ Returned(t, "recv_msg")
          /\ ~call[t].recv.ok
          /\ res[t] = OkNone

\* The step in which the send_cmd of thread t fails: encode, send, receive or
\* decode.
SendCmdFails(t) ==
    /\ pc[t] \in {"send", "recv"}
    /\ pc'[t] = "ret"
    /\ call'[t].logged # "none"

\* C14: a command (any operation but stop, which goes on to close the socket)
\* whose send_cmd fails leaves the listening flag, the primary socket and the
\* subscription sockets as they were.
C14_FailureLeavesSession ==
    [][\A t \in Threads :
          (SendCmdFails(t) /\ call[t].op # "stop")
          => UNCHANGED <<listening, socket, subs>>]_vars

\* After a command whose receive failed, a later call got the reply to its own
\* request on the same open socket and returned Ok.
C14_Witness ==
    /\ hist.timedOut
    /\ socket.open
    /\ \E t \in Threads :
          /\ Returned(t, "send_text")
          /\ res[t] = OkBool(TRUE)
          /\ call[t].reqid = 2
          /\ call[t].repid = call[t].reqid

\* C19: is_login returns Ok(true) exactly when the reply decoded to a Status
\* payload of value 1, Ok(false) for every other decoded reply (no payload,
\* another status, another variant), and an error exactly when send_cmd failed.
C19_IsLogin ==
    \A t \in Threads :
        Returned(t, "is_login")
        => LET c == call[t]
               m == c.recv.bytes.msg
           IN /\ res[t] = OkBool(TRUE) <=> (c.logged = "none" /\ m = Status(1))
              /\ res[t] = OkBool(FALSE) <=> (c.logged = "none" /\ m # Status(1))
              /\ res[t].kind = "Err" <=> c.logged # "none"
              /\ res[t] \in {OkBool(TRUE), OkBool(FALSE), Err("is_login")}

\* is_login got a Status reply other than 1 and returned Ok(false).
C19_Witness ==
    \E t \in Threads :
        /\ Returned(t, "is_login")
        /\ call[t].logged = "none"
        /\ call[t].recv = Received(Encoded(Status(-1)))
        /\ res[t] = OkBool(FALSE)

\* The step in which the enable_listen of thread t returns after its send_cmd.
EnableListenReturns(t) ==
    /\ call[t].op = "enable_listen"
    /\ pc[t] \in {"send", "recv"}
    /\ pc'[t] = "ret"

\* C20: enable_listen dials the subscription socket and sets listening only
\* after send_cmd succeeded with a non-empty reply; when send_cmd failed or the
\* reply carries no payload it returns an error, dials nothing and leaves the
\* session not listening.
C20_EnableListenOrder ==
    [][\A t \in Threads :
          EnableListenReturns(t)
          => LET c == call'[t]
                 good == c.logged = "none" /\ c.recv.bytes.msg # None
             IN /\ ~good => /\ res'[t] = Err("enable_listen")
                            /\ UNCHANGED <<listening, subs>>
                            /\ ~listening'
                /\ (listening' \/ subs' # subs)
                   => /\ good
                      /\ listening'
                      /\ Len(subs') = Len(subs) + 1
                      /\ res'[t] = OkSocket(Len(subs'))]_vars

\* An enable_listen got an empty reply and returned an error; the next
\* enable_listen was not rejected: it sent its request.
C20_Witness ==
    \E t \in Threads :
        /\ call[t].op = "enable_listen"
        /\ pc[t] = "recv"
        /\ call[t].reqid = 2
        /\ ~listening
        /\ subs = <<>>
        /\ remotePushing

\* C15: every call terminates: a thread blocked in the send or the receive of
\* send_cmd, or in the receive of recv_msg, eventually returns, whatever the
\* peer does or fails to do.
C15_CallsTerminate ==
    \A t \in Threads : (pc[t] \in {"send", "recv", "poll"}) ~> (pc[t] = "ret")

\* The peer never answered: the receive of send_cmd gave up and the operation
\* returned its error.
C15_Witness ==
    \E t \in Threads :
        /\ Returned(t, "send_text")
        /\ call[t].logged = "recv"
        /\ call[t].nsend = 1
        /\ res[t] = Err("send_text")
        /\ repQ = <<>>

\* Two calls of one operation have returned, one after its send failed, the
\* other after its receive failed.
BothLegsFailed(t, u) ==
    /\ pc[t] = "ret"
    /\ pc[u] = "ret"
    /\ call[t].op = call[u].op
    /\ call[t].logged = "send"
    /\ call[u].logged = "recv"

\* C16, as stated: a call whose send failed and a call whose receive failed
\* return different errors.
C16_LegsDistinct ==
    \A t, u \in Threads : BothLegsFailed(t, u) => res[t] # res[u]

\* C16, amended: a call whose send failed and a call whose receive failed
\* return the same error; which leg failed is in the log only.
C16_LegsSameError ==
    \A t, u \in Threads :
        BothLegsFailed(t, u)
        => /\ res[t] = res[u]
           /\ res[t] = Err(call[t].op)

C16_Witness ==
    \E t, u \in Threads :
        /\ BothLegsFailed(t, u)
        /\ call[t].op = "is_login"
        /\ res[t].kind = "Err"
        /\ res[u].kind = "Err"

\* The step in which the recv_msg of thread t returns.
PollReturns(t) == pc[t] = "poll" /\ pc'[t] = "ret"

\* The step in which the send_cmd of thread t receives or gives up receiving.
CmdReceives(t) == pc[t] = "recv" /\ pc'[t] = "ret"

\* C17: recv_msg and the primary commands do not interfere, whatever the
\* interleaving: a returning recv_msg leaves the listening flag, the primary
\* socket and the primary link as they were, and what it returns is what was
\* first on the subscription link (taken from it) or the receive failure; a
\* command's receive leaves the subscription link as it was and takes what was
\* first on the primary link.
C17_LinksIndependent ==
    [][\A t \in Threads :
          /\ PollReturns(t)
             => /\ UNCHANGED <<listening, socket, remotePushing, reqQ, repQ>>
                /\ \/ /\ call'[t].recv = RecvFailed
                      /\ UNCHANGED subQ
                   \/ /\ subQ # <<>>
                      /\ call'[t].recv = Received(Head(subQ))
                      /\ subQ' = Tail(subQ)
                /\ res'[t] = recv_msg(call'[t].recv)
          /\ CmdReceives(t)
             => /\ UNCHANGED subQ
                /\ \/ /\ call'[t].logged = "recv"
                      /\ UNCHANGED repQ
                   \/ /\ repQ # <<>>
                      /\ call'[t].recv = Received(Head(repQ).bytes)
                      /\ repQ' = Tail(repQ)]_vars

\* A recv_msg returned a pushed event while a command of another thread waits
\* for its reply, which is on the primary link.
C17_Witness ==
    \E t, u \in Threads :
        /\ Returned(t, "recv_msg")
        /\ res[t] = OkSome(1)
        /\ pc[u] = "recv"
        /\ repQ # <<>>
        /\ Head(repQ).id = call[u].reqid

\* Thread t was handed the reply to a request it did not send.
Mismatched(t) ==
    /\ pc[t] = "ret"
    /\ call[t].repid # 0
    /\ call[t].repid # call[t].reqid

\* C18: send_cmd takes no lock: a caller is handed the reply to another
\* request only if its call overlapped another call on the session, or if a
\* receive has timed out before; calls that are serialized and answered in time
\* get their own replies.
C18_MismatchNeedsOverlap ==
    \A t \in Threads : Mismatched(t) => (call[t].overlap \/ hist.timedOut)

\* Two is_login calls overlapped and one was handed the reply to the other,
\* no receive having timed out.
C18_Witness ==
    \E t \in Threads :
        /\ Mismatched(t)
        /\ call[t].op = "is_login"
        /\ call[t].overlap
        /\ ~hist.timedOut

\* The step in which the stop of thread t returns.
StopReturns(t) ==
    /\ call'[t].op = "stop"
    /\ pc[t] # "ret"
    /\ pc'[t] = "ret"

\* C21: stop tears down in order: the FuncDisableRecvTxt request of a stop is
\* put on the primary link while the primary socket is open; the socket is
\* closed in the step in which stop returns and in no other, after the send
\* of a stop that found the session listening; and every stop that returns
\* leaves it closed, also when its disable_listen failed.
C21_StopOrder ==
    [][/\ \A t \in Threads :
             /\ (call[t].op = "stop" /\ pc[t] = "send" /\ pc'[t] = "recv")
                => /\ socket.open
                   /\ socket'.open
                   /\ reqQ' = Append(reqQ, Request(call'[t].reqid, "stop"))
             /\ StopReturns(t) => ~socket'.open
       /\ (socket.open /\ ~socket'.open)
          => \E t \in Threads :
                /\ StopReturns(t)
                /\ call'[t].entry
                   => (call'[t].nsend = 1 \/ call'[t].logged = "encode")]_vars

\* A stop on a listening session sent its request, its disable_listen failed
\* on the receive, and the primary socket is closed.
C21_Witness ==
    \E t \in Threads :
        /\ Returned(t, "stop")
        /\ call[t].entry
        /\ call[t].nsend = 1
        /\ call[t].logged = "recv"
        /\ call[t].unsub = Err("disable_listen")
        /\ ~socket.open

\* C22 (as claimed): with serialized calls, the reply a successful send_cmd
\* returns is the reply to the request that call sent, also after an earlier
\* call gave up on a receive timeout.
C22_OwnReplyAlways ==
    \A t \in Threads :
        (pc[t] = "ret" /\ call[t].nrecv = 1 /\ call[t].logged = "none")
        => call[t].repid = call[t].reqid

\* Both timeouts of socket s are set, to the same bound.
Timed(s) == s.recvTimeout = TimeoutMs /\ s.sendTimeout = TimeoutMs

\* C23: connect returns an endpoint only with both timeouts set to 5000 ms, and
\* returns an error and no endpoint when a step fails: the primary socket and
\* every socket enable_listen handed out have both timeouts; an enable_listen
\* whose connect failed panicked; and there are as many subscription sockets
\* as enable_listen calls that returned one.
C23_ConnectTimeouts ==
    /\ \A fail \in ConnectSteps \cup {"none"} :
          LET c == connect(fail) IN
          /\ c.ok <=> fail = "none"
          /\ c.ok => (c.sock.open /\ Timed(c.sock))
          /\ ~c.ok => ~c.sock.open
    /\ Timed(socket)
    /\ \A e \in 1..Len(subs) : Timed(subs[e])
    /\ \A t \in Threads :
          Returned(t, "enable_listen")
          => /\ res[t].ty = "socket" => (res[t].n = Len(subs) /\ Timed(subs[res[t].n]))
             /\ res[t] = Panic => (~listening /\ call[t].logged = "none")

\* An enable_listen whose connect failed returned no socket: none was added.
C23_Witness ==
    \E t \in Threads :
        /\ Returned(t, "enable_listen")
        /\ res[t] = Panic
        /\ subs = <<>>
        /\ Timed(socket)

====
